---------------------------- MODULE Spec2Model ----------------------------
(***************************************************************************)
(* Model of src/osu/scores.rs: the Deserializer that scans the body of an  *)
(* osu!api response for the elements of its "scores" array and inserts     *)
(* each element, as a verbatim byte range plus its id, into a              *)
(* BTreeSet<Score> ordered by id.                                          *)
(*                                                                         *)
(* Bytes are ASCII codes.  Indices (idx, i, init, prev_idx) are 0-based as *)
(* in the source; At and Slice translate them to TLA+'s 1-based sequences. *)
(***************************************************************************)
EXTENDS Integers, Sequences, FiniteSets, TLC

(***************************************************************************)
(* Byte literals of the source.                                            *)
(***************************************************************************)
SPACE    == 32
QUOTE    == 34
COMMA    == 44
DIGIT0   == 48
DIGIT9   == 57
COLON    == 58
LBRACKET == 91
RBRACKET == 93
LBRACE   == 123
RBRACE   == 125

\* const SCORES: &[u8] = br#""scores":"#
SCORES == <<34, 115, 99, 111, 114, 101, 115, 34, 58>>

\* const ID: &[u8] = br#""id":"#
ID == <<34, 105, 100, 34, 58>>

(***************************************************************************)
(* Option<T>: None is the empty sequence, Some(x) the one-element one.     *)
(***************************************************************************)
None == << >>
Some(x) == <<x>>
is_none(o) == o = None
unwrap(o) == o[1]

(***************************************************************************)
(* Slices.  At(b, k) is b[k]; Slice(b, lo, hi) is &b[lo..hi]; From(b, lo)  *)
(* is &b[lo..].                                                            *)
(***************************************************************************)
InBounds(b, k) == k >= 0 /\ k < Len(b)
At(b, k) == b[k + 1]
Slice(b, lo, hi) == SubSeq(b, lo + 1, hi)
From(b, lo) == SubSeq(b, lo + 1, Len(b))

(***************************************************************************)
(* memmem::find(haystack, needle): the offset of the first occurrence of   *)
(* needle in haystack, or None.                                            *)
(***************************************************************************)
RECURSIVE find_from(_, _, _)
find_from(haystack, needle, k) ==
    IF k + Len(needle) > Len(haystack) THEN None
    ELSE IF Slice(haystack, k, k + Len(needle)) = needle THEN Some(k)
    ELSE find_from(haystack, needle, k + 1)

memmem_find(haystack, needle) == find_from(haystack, needle, 0)

(***************************************************************************)
(* memchr::memchr2_iter(b'{', b'}', haystack), as the iterator's next():   *)
(* the offset of the first brace at or after offset from, or None.         *)
(***************************************************************************)
RECURSIVE memchr2_next(_, _)
memchr2_next(haystack, from) ==
    IF from >= Len(haystack) THEN None
    ELSE IF At(haystack, from) = LBRACE \/ At(haystack, from) = RBRACE THEN Some(from)
    ELSE memchr2_next(haystack, from + 1)

(***************************************************************************)
(* Result<T>: [ok |-> TRUE, val |-> v] or [ok |-> FALSE, err |-> chain],   *)
(* the chain being eyre's context messages, outermost first.               *)
(***************************************************************************)
Ok(v) == [ok |-> TRUE, val |-> v, err |-> << >>]
Err(chain) == [ok |-> FALSE, val |-> 0, err |-> chain]
context(r, msg) == IF r.ok THEN r ELSE Err(<<msg>> \o r.err)

\* The two until predicates of the source, each as the set of bytes it
\* accepts: |byte| byte == b'[' and |byte| byte.is_ascii_digit().
is_open_bracket == {LBRACKET}
is_ascii_digit == DIGIT0..DIGIT9

(***************************************************************************)
(* skip_whitespace_until: the try_fold breaks at the first byte that is    *)
(* not a space, with Ok(its offset) if until holds of it and with          *)
(* "Unexpected character" otherwise; a fold that never breaks gives        *)
(* "until condition never met".                                            *)
(***************************************************************************)
\* Mutant: the whitespace of JSON skipped (tab, line feed, carriage return
\* and space), not the space alone.
RECURSIVE try_fold_json_whitespace(_, _, _)
try_fold_json_whitespace(bytes, until, k) ==
    IF k >= Len(bytes) THEN Err(<<"until condition never met">>)
    ELSE IF At(bytes, k) \in {9, 10, 13, SPACE} THEN try_fold_json_whitespace(bytes, until, k + 1)
    ELSE IF At(bytes, k) \in until THEN Ok(k)
    ELSE Err(<<"Unexpected character">>)

RECURSIVE try_fold(_, _, _)
try_fold(bytes, until, k) ==
    IF k >= Len(bytes) THEN Err(<<"until condition never met">>)
    ELSE IF At(bytes, k) = SPACE THEN try_fold(bytes, until, k + 1)
    ELSE IF At(bytes, k) \in until THEN Ok(k)
    ELSE Err(<<"Unexpected character">>)

skip_whitespace_until(bytes, until) == try_fold(bytes, until, 0)

(***************************************************************************)
(* peek_u64: skip spaces up to the first digit, then fold the maximal run  *)
(* of digits with n * 10 + (byte & 0xF).                                   *)
(***************************************************************************)
\* Mutant: the byte itself folded in, its low four bits not taken.
RECURSIVE fold_digits_raw(_, _)
fold_digits_raw(bytes, n) ==
    IF bytes = << >> \/ Head(bytes) \notin is_ascii_digit
    THEN n
    ELSE fold_digits_raw(Tail(bytes), n * 10 + Head(bytes))

RECURSIVE fold_digits(_, _)
fold_digits(bytes, n) ==
    IF bytes = << >> \/ Head(bytes) \notin is_ascii_digit
    THEN n
    ELSE fold_digits(Tail(bytes), n * 10 + (Head(bytes) % 16))

peek_u64(bytes) ==
    LET start == context(skip_whitespace_until(bytes, is_ascii_digit),
                         "Failed to skip until digit")
    IN  IF ~start.ok THEN start
        ELSE Ok(fold_digits(From(bytes, start.val), 0))

(***************************************************************************)
(* Score and its ordering.  PartialEq and Ord compare the ids alone.       *)
(***************************************************************************)
Score(bytes, id) == [bytes |-> bytes, id |-> id]

\* Mutant: an ordering by the payload (its length) instead of the id.
cmp_by_len(self, other) ==
    IF Len(self.bytes) < Len(other.bytes) THEN "Less"
    ELSE IF Len(self.bytes) = Len(other.bytes) THEN "Equal"
    ELSE "Greater"

\* impl Ord for Score: self.id.cmp(&other.id)
cmp(self, other) ==
    IF self.id < other.id THEN "Less"
    ELSE IF self.id = other.id THEN "Equal"
    ELSE "Greater"

\* Score::only_id(id): a Score of that id with no bytes, Bytes::new().
only_id(id) == Score(<< >>, id)

\* impl PartialOrd for Score: Some(self.cmp(other))
partial_cmp(self, other) == Some(cmp(self, other))

\* Mutant: the equality a derive would give, bytes and id both compared.
eq_derived(self, other) == self = other

\* impl PartialEq for Score: self.id == other.id
eq(self, other) == self.id = other.id

(***************************************************************************)
(* Scores = BTreeSet<Score>, held as the sequence its iterator yields.     *)
(* insert keeps the set as it is when a member compares Equal to the new   *)
(* value, and otherwise places the value after the members that compare    *)
(* Less than it.                                                           *)
(***************************************************************************)
\* Mutant: an insert that replaces the member that compares Equal.
insert_replace(set, value) ==
    LET below == Cardinality({k \in 1..Len(set) : cmp(set[k], value) = "Less"})
        above == Cardinality({k \in 1..Len(set) : cmp(set[k], value) = "Greater"})
    IN  SubSeq(set, 1, below) \o <<value>> \o SubSeq(set, Len(set) - above + 1, Len(set))

insert(set, value) ==
    IF \E k \in 1..Len(set) : cmp(set[k], value) = "Equal"
    THEN set
    ELSE LET below == Cardinality({k \in 1..Len(set) : cmp(set[k], value) = "Less"})
         IN  SubSeq(set, 1, below) \o <<value>> \o SubSeq(set, below + 1, Len(set))

(***************************************************************************)
(* The response bodies the callers hand to Deserializer::new.  A body is   *)
(* rendered from a head (what precedes the first element), up to MaxElems  *)
(* elements with ids in Ids, the separator written between elements       *)
(* and a tail (what follows the last element).  The bodies of the source's *)
(* own test have this shape; the other heads, separators and tails are the *)
(* malformed and truncated bodies.  Every prefix of a body with at most    *)
(* one element is a body too (a response cut short).                       *)
(***************************************************************************)
MaxElems == 2

\* The ids the elements carry: one of one digit and one of two, so that the
\* order of the ids is not the order of their bytes.
Ids == {7, 12}

RECURSIVE Dec(_)
Dec(n) == IF n < 10 THEN <<DIGIT0 + n>> ELSE Dec(n \div 10) \o <<DIGIT0 + (n % 10)>>

\* The id written inside the nested sub-object of the element with id n.
NestedId(n) == n + 10

KeyU == <<QUOTE, 117, QUOTE, COLON>>

ElemKinds == {"plain", "before", "after", "nested_only"}

\* {"id": n}   {"id":n, "u": {"id": m}}   {"u": {"id":m}, "id": n}   {"u": {"id":m}}
Elem(kind, n) ==
    LET nested == <<LBRACE>> \o ID \o Dec(NestedId(n)) \o <<RBRACE>>
    IN  CASE kind = "plain"  -> <<LBRACE>> \o ID \o <<SPACE>> \o Dec(n) \o <<RBRACE>>
          [] kind = "before" -> <<LBRACE>> \o ID \o Dec(n) \o <<COMMA, SPACE>> \o KeyU
                                   \o <<SPACE>> \o nested \o <<RBRACE>>
          [] kind = "after"  -> <<LBRACE>> \o KeyU \o <<SPACE>> \o nested
                                   \o <<COMMA, SPACE>> \o ID \o <<SPACE>> \o Dec(n) \o <<RBRACE>>
          [] OTHER           -> <<LBRACE>> \o KeyU \o <<SPACE>> \o nested \o <<RBRACE>>

Elems == {[kind |-> k, id |-> n] : k \in ElemKinds \ {"nested_only"}, n \in Ids}
             \cup {[kind |-> "nested_only", id |-> 7]}

ElemLists == UNION {[1..l -> Elems] : l \in 0..MaxElems}

\* "scores":[   {"scores": [   {"score": [   "scores":   "scores":(line feed)[
\* "scores":[ (space)
Heads == {"plain", "test", "nokey", "object", "newline", "gap"}
RenderHead(h) ==
    CASE h = "plain"  -> SCORES \o <<LBRACKET>>
      [] h = "test"   -> <<LBRACE>> \o SCORES \o <<SPACE, LBRACKET>>
      [] h = "nokey"  -> <<LBRACE>> \o SubSeq(SCORES, 1, 6) \o <<QUOTE, COLON, SPACE, LBRACKET>>
      [] h = "object" -> SCORES
      [] h = "newline" -> SCORES \o <<10, LBRACKET>>
      [] OTHER        -> SCORES \o <<LBRACKET, SPACE>>

\* ,   , (space)   (space),   nothing
Seps == {"comma", "comma_space", "space_comma", "none"}
RenderSep(s) ==
    CASE s = "comma"       -> <<COMMA>>
      [] s = "comma_space" -> <<COMMA, SPACE>>
      [] s = "space_comma" -> <<SPACE, COMMA>>
      [] OTHER             -> << >>

\* ]   ], "u": {"id": 9}}   nothing   ,   ,}   (space)]
Tails == {"close", "cursor", "eof", "comma", "comma_brace", "space_close"}
RenderTail(t) ==
    CASE t = "close"       -> <<RBRACKET>>
      [] t = "cursor"      -> <<RBRACKET, COMMA, SPACE>> \o KeyU
                                 \o <<SPACE, LBRACE>> \o ID \o <<SPACE>> \o Dec(9) \o <<RBRACE, RBRACE>>
      [] t = "eof"         -> << >>
      [] t = "comma"       -> <<COMMA>>
      [] t = "comma_brace" -> <<COMMA, RBRACE>>
      [] OTHER             -> <<SPACE, RBRACKET>>

RECURSIVE Join(_, _)
Join(elems, sep) ==
    IF elems = << >> THEN << >>
    ELSE IF Len(elems) = 1 THEN Elem(elems[1].kind, elems[1].id)
    ELSE Elem(elems[1].kind, elems[1].id) \o RenderSep(sep) \o Join(Tail(elems), sep)

Render(d) == RenderHead(d.head) \o Join(d.elems, d.sep) \o RenderTail(d.tail)

Doc(h, es, s, t) == [head |-> h, elems |-> es, sep |-> s, tail |-> t]

\* One departure from the well-formed shape at a time.
Docs ==
    {Doc(h, es, "comma_space", "close") : h \in Heads, es \in ElemLists}
        \cup {Doc("plain", es, s, "close") : s \in Seps, es \in ElemLists}
        \cup {Doc("plain", es, "comma", t) : t \in Tails, es \in ElemLists}
        \cup {Doc("test", es, "comma_space", "cursor") : es \in ElemLists}

Prefixes(b) == {SubSeq(b, 1, l) : l \in 0..Len(b)}

Inputs ==
    {Render(d) : d \in Docs}
        \cup UNION {Prefixes(Render(d)) :
                        d \in {e \in Docs : Len(e.elems) <= 1 /\ e.head = "test" /\ e.tail = "cursor"}}

(***************************************************************************)
(* State.                                                                  *)
(*   scores      the caller's collection, handed in as &mut Scores         *)
(*   old         the collection as it was when the current call began      *)
(*   bytes, idx  the Deserializer's fields                                 *)
(*   pc          where the call stands                                     *)
(*   parentheses the offset in bytes[idx..] from which the brace iterator  *)
(*               looks for its next item                                   *)
(*   init, prev_depth, prev_idx, id   the locals of deserialize_scores     *)
(*   result      None while the call runs, then what it returned: Ok(()),  *)
(*               an error with its context chain, or a panic               *)
(***************************************************************************)
VARIABLES scores, old, bytes, idx, pc, parentheses, init, prev_depth, prev_idx, id, result

vars == <<scores, old, bytes, idx, pc, parentheses, init, prev_depth, prev_idx, id, result>>

locals == <<parentheses, init, prev_depth, prev_idx, id>>

Unit == << >>
Panic(msg) == [ok |-> FALSE, val |-> 0, err |-> <<"panic", msg>>]

Init ==
    /\ scores = << >>
    /\ old = << >>
    /\ bytes = << >>
    /\ idx = 0
    /\ pc = "idle"
    /\ parentheses = 0
    /\ init = 0
    /\ prev_depth = 0
    /\ prev_idx = 0
    /\ id = None
    /\ result = None

\* The call returns r (or unwinds with a panic); the locals go out of scope.
Return(r) ==
    /\ result' = Some(r)
    /\ pc' = IF r.err # << >> /\ r.err[1] = "panic" THEN "panicked" ELSE "returned"
    /\ parentheses' = 0
    /\ init' = 0
    /\ prev_depth' = 0
    /\ prev_idx' = 0
    /\ id' = None

\* Deserializer::new(bytes), for the next call on the caller's collection.
New(b) ==
    /\ pc = "idle"
    /\ bytes' = b
    /\ idx' = 0
    /\ old' = scores
    /\ result' = None
    /\ pc' = "deserialize"
    /\ UNCHANGED <<scores, locals>>

\* The caller makes a Deserializer for one of the bodies.
Call ==
    /\ pc = "idle"
    /\ \E b \in Inputs : New(b)

\* The caller has matched on the result; the Deserializer, which the call
\* consumed, and the result are dropped.
Drop ==
    /\ pc = "returned"
    /\ pc' = "idle"
    /\ bytes' = << >>
    /\ idx' = 0
    /\ old' = scores
    /\ result' = None
    /\ UNCHANGED <<scores, locals>>

\* Mutant: a missing marker taken as offset 0 instead of an error.
Deserialize_unwrap_or_default ==
    /\ pc = "deserialize"
    /\ LET start == memmem_find(bytes, SCORES)
       IN  /\ idx' = (IF is_none(start) THEN 0 ELSE unwrap(start)) + Len(SCORES)
           /\ pc' = "deserialize_scores"
           /\ UNCHANGED <<scores, old, bytes, locals, result>>

\* deserialize: find the "scores": marker and set idx behind it.
Deserialize ==
    /\ pc = "deserialize"
    /\ LET start == memmem_find(bytes, SCORES)
       IN  IF is_none(start)
           THEN /\ Return(Err(<<"Missing scores">>))
                /\ UNCHANGED <<scores, old, bytes, idx>>
           ELSE /\ idx' = unwrap(start) + Len(SCORES)
                /\ pc' = "deserialize_scores"
                /\ UNCHANGED <<scores, old, bytes, locals, result>>

\* deserialize wraps what deserialize_scores returns in its own context.
ReturnScores(r) == Return(context(r, "Failed to deserialize scores"))

\* deserialize_scores, up to the opening bracket: skip spaces, step behind it.
SkipToBracket ==
    /\ pc = "deserialize_scores"
    /\ LET start == context(skip_whitespace_until(From(bytes, idx), is_open_bracket),
                            "Failed to skip until opening bracket")
       IN  IF ~start.ok
           THEN /\ ReturnScores(start)
                /\ UNCHANGED <<scores, old, bytes, idx>>
           ELSE /\ idx' = idx + start.val + 1
                /\ pc' = "first"
                /\ UNCHANGED <<scores, old, bytes, locals, result>>

\* Mutant: whatever is not an opening brace taken as the end of the array.
first_byte_else_empty(byte) == IF byte = LBRACE THEN "element" ELSE "empty"

\* Mutant: the empty array not provided for.
first_byte_no_empty(byte) == IF byte = LBRACE THEN "element" ELSE "bail"

\* match self.bytes[self.idx] { b'{' => {}, b']' => return Ok(()), _ => bail }
first_byte(byte) ==
    IF byte = LBRACE THEN "element"
    ELSE IF byte = RBRACKET THEN "empty"
    ELSE "bail"

\* match self.bytes[self.idx]: an element opens, the array is empty, or bail.
\* On an opening brace the brace iterator is made and its first item (offset
\* 0, this brace) is consumed, and the locals of the loop are set.
FirstByte ==
    /\ pc = "first"
    /\ IF ~InBounds(bytes, idx)
       THEN /\ Return(Panic("index out of bounds"))
            /\ UNCHANGED <<scores, old, bytes, idx>>
       ELSE IF first_byte(At(bytes, idx)) = "element"
       THEN /\ parentheses' = unwrap(memchr2_next(From(bytes, idx), 0)) + 1
            /\ init' = 0
            /\ prev_depth' = 1
            /\ prev_idx' = 0
            /\ id' = None
            /\ pc' = "loop"
            /\ UNCHANGED <<scores, old, bytes, idx, result>>
       ELSE IF first_byte(At(bytes, idx)) = "empty"
       THEN /\ idx' = idx + 1
            /\ ReturnScores(Ok(Unit))
            /\ UNCHANGED <<scores, old, bytes>>
       ELSE /\ ReturnScores(Err(<<"Expected opening brace or closing bracket">>))
            /\ UNCHANGED <<scores, old, bytes, idx>>

\* let curr_depth = match self.bytes[self.idx + i] { b'{' => +1, b'}' => -1 }
depth_after(byte, depth) == IF byte = LBRACE THEN depth + 1 ELSE depth - 1

\* Mutant: the capture rule without its depth condition.
searches_any_depth(the_id, depth) == is_none(the_id)

\* if id.is_none() && prev_depth == 1
searches(the_id, depth) == is_none(the_id) /\ depth = 1

\* Mutant: the search run from the start of the array, the checkpoint ignored.
search_slice_no_checkpoint(b, at, from, i) == Slice(b, at, at + i)

\* let slice = &self.bytes[self.idx + prev_idx..self.idx + i]
search_slice(b, at, from, i) == Slice(b, at + from, at + i)

\* Mutant: the slice taken from the first element's start, init ignored.
element_bytes_from_first(b, at, from, i) == Slice(b, at, at + i + 1)

\* let bytes = self.bytes.slice(self.idx + init..=self.idx + i)
element_bytes(b, at, from, i) == Slice(b, at + from, at + i + 1)

\* Mutant: the closing bracket passed over like a comma, the loop going on.
after_close_no_break(byte) ==
    IF byte = COMMA \/ byte = RBRACKET THEN "continue" ELSE "bail"

\* Mutant: a space after the closing brace let through like a comma.
after_close_skips_space(byte) ==
    IF byte = COMMA \/ byte = SPACE THEN "continue"
    ELSE IF byte = RBRACKET THEN "break"
    ELSE "bail"

\* match self.bytes[self.idx + i + 1] { b',' => {}, b']' => break, _ => bail }
after_close(byte) ==
    IF byte = COMMA THEN "continue"
    ELSE IF byte = RBRACKET THEN "break"
    ELSE "bail"

\* The id after one pass of the capture rule over the gap before brace i:
\* Ok(the id, maybe still None), or the error of peek_u64.
capture(b, at, from, i, the_id, depth) ==
    IF ~searches(the_id, depth) THEN Ok(the_id)
    ELSE LET slice == search_slice(b, at, from, i)
             id_idx == memmem_find(slice, ID)
         IN  IF is_none(id_idx) THEN Ok(the_id)
             ELSE LET n == context(peek_u64(From(slice, unwrap(id_idx) + Len(ID))),
                                   "Failed to peek u64")
                  IN  IF n.ok THEN Ok(Some(n.val)) ELSE n

\* The next item of the brace iterator, as an Option.
NextBrace == memchr2_next(From(bytes, idx), parentheses)

\* One pass of `for i in parentheses`.
LoopStep ==
    /\ pc = "loop"
    /\ ~is_none(NextBrace)
    /\ LET i == unwrap(NextBrace)
           curr_depth == depth_after(At(bytes, idx + i), prev_depth)
           got == capture(bytes, idx, prev_idx, i, id, prev_depth)
       IN  IF ~got.ok
           THEN /\ ReturnScores(got)
                /\ UNCHANGED <<scores, old, bytes, idx>>
           ELSE IF curr_depth = 1
           THEN /\ init' = IF prev_depth = 0 THEN i ELSE init
                /\ prev_idx' = i
                /\ id' = got.val
                /\ prev_depth' = curr_depth
                /\ parentheses' = i + 1
                /\ UNCHANGED <<scores, old, bytes, idx, pc, result>>
           ELSE IF curr_depth = 0
           THEN IF is_none(got.val)
                THEN /\ ReturnScores(Err(<<"Missing id within bytes">>))
                     /\ UNCHANGED <<scores, old, bytes, idx>>
                ELSE /\ scores' = insert(scores, Score(element_bytes(bytes, idx, init, i),
                                                       unwrap(got.val)))
                     /\ UNCHANGED <<old, bytes, idx>>
                     /\ IF ~InBounds(bytes, idx + i + 1)
                        THEN Return(Panic("index out of bounds"))
                        ELSE IF after_close(At(bytes, idx + i + 1)) = "continue"
                        THEN /\ id' = None
                             /\ prev_depth' = curr_depth
                             /\ parentheses' = i + 1
                             /\ UNCHANGED <<init, prev_idx, pc, result>>
                        ELSE IF after_close(At(bytes, idx + i + 1)) = "break"
                        THEN ReturnScores(Ok(Unit))
                        ELSE ReturnScores(Err(<<"Expected comma or closing bracket">>))
           ELSE /\ id' = got.val
                /\ prev_depth' = curr_depth
                /\ parentheses' = i + 1
                /\ UNCHANGED <<scores, old, bytes, idx, init, prev_idx, pc, result>>

\* The iterator is exhausted: the loop ends and the function returns Ok(()).
LoopEnd ==
    /\ pc = "loop"
    /\ is_none(NextBrace)
    /\ ReturnScores(Ok(Unit))
    /\ UNCHANGED <<scores, old, bytes, idx>>

Next ==
    \/ Call
    \/ Deserialize
    \/ SkipToBracket
    \/ FirstByte
    \/ LoopStep
    \/ LoopEnd
    \/ Drop

Spec == Init /\ [][Next]_vars

(***************************************************************************)
(* The scanner on bodies made to exercise peek_u64: one element whose id   *)
(* marker is followed by any word of up to MaxPeekLen bytes over spaces,   *)
(* digits and a comma.  Behind the word the element closes and the array   *)
(* ends, or a second id marker with a proper value comes first, or the     *)
(* body is cut short.  Each call is on an empty collection.                *)
(***************************************************************************)
MaxPeekLen == 4

PeekAlphabet == {SPACE, COMMA, DIGIT0, DIGIT0 + 7, DIGIT9}
PeekWords == UNION {[1..l -> PeekAlphabet] : l \in 0..MaxPeekLen}

\* }]   ,"id":7}]   nothing
PeekSuffixes == {"close", "second", "eof"}
RenderPeekSuffix(s) ==
    CASE s = "close"  -> <<RBRACE, RBRACKET>>
      [] s = "second" -> <<COMMA>> \o ID \o Dec(7) \o <<RBRACE, RBRACKET>>
      [] OTHER        -> << >>

\* "scores":[{"id":   in front of every word
PeekHead == SCORES \o <<LBRACKET, LBRACE>> \o ID
PeekBody(w, s) == PeekHead \o w \o RenderPeekSuffix(s)
PeekInputs == {PeekBody(w, s) : w \in PeekWords, s \in PeekSuffixes}

CallPeek ==
    /\ pc = "idle"
    /\ \E b \in PeekInputs : New(b)

NextPeek ==
    \/ CallPeek
    \/ Deserialize
    \/ SkipToBracket
    \/ FirstByte
    \/ LoopStep
    \/ LoopEnd

SpecPeek == Init /\ [][NextPeek]_vars

(***************************************************************************)
(* What the claims speak of.                                               *)
(***************************************************************************)
OkResult == Some(Ok(Unit))
ScoresErr(msgs) == Some(Err(<<"Failed to deserialize scores">> \o msgs))

Members(set) == {set[k] : k \in 1..Len(set)}
IdsOf(set) == {set[k].id : k \in 1..Len(set)}

\* The Scores the current call has added to the collection.
Added == Members(scores) \ Members(old)

E(kind, n) == [kind |-> kind, id |-> n]
OwnId(e) == e.kind # "nested_only"
AllOwnId(es) == \A j \in 1..Len(es) : OwnId(es[j])
ElemIds(es) == {es[j].id : j \in 1..Len(es)}

\* The bodies with a well-formed array whose elements all carry their own id.
GoodDocs ==
    {d \in Docs : /\ d.head \in {"plain", "test"}
                  /\ d.sep \in {"comma", "comma_space"}
                  /\ d.tail \in {"close", "cursor"}
                  /\ AllOwnId(d.elems)}

\* Bodies of D as rendered, each with the elements it was rendered from.
Rendered(D) == {[bytes |-> Render(d), elems |-> d.elems] : d \in D}
BytesOf(R) == {r.bytes : r \in R}

GoodBodies == Rendered(GoodDocs)
GoodBytes == BytesOf(GoodBodies)

\* The number of opening braces less the closing ones among b[1..k].
BraceDepth(b, k) ==
    Cardinality({j \in 1..k : b[j] = LBRACE}) - Cardinality({j \in 1..k : b[j] = RBRACE})

\* b runs from an opening brace to the closing brace that matches it.
IsElementRange(b) ==
    /\ Len(b) >= 2
    /\ b[1] = LBRACE
    /\ b[Len(b)] = RBRACE
    /\ BraceDepth(b, Len(b)) = 0
    /\ \A k \in 1..(Len(b) - 1) : BraceDepth(b, k) >= 1

Occurs(b, haystack) ==
    \E a \in 0..(Len(haystack) - Len(b)) :
        At(haystack, a) = b[1] /\ Slice(haystack, a, a + Len(b)) = b

\* C1: a call on a well-formed body into an empty collection succeeds, and
\* the ids in the collection are exactly the ids written in the elements'
\* own scope (one Score per element; one per id where elements share an id),
\* wherever the nested sub-object stands; no nested id is among them.
C1_IdsFromOwnScope ==
    (pc = "returned" /\ old = << >> /\ bytes \in GoodBytes) =>
        \A d \in GoodBodies :
            bytes = d.bytes =>
                /\ result = OkResult
                /\ IdsOf(scores) = ElemIds(d.elems)
                /\ Len(scores) = Cardinality(ElemIds(d.elems))

\* An element with its id after a nested sub-object and one with its id
\* before it have been scanned into an empty collection.
C1_Witness ==
    /\ pc = "returned"
    /\ old = << >>
    /\ bytes = Render(Doc("test", <<E("after", 12), E("before", 7)>>, "comma_space", "cursor"))
    /\ result = OkResult
    /\ IdsOf(scores) = {7, 12}

\* C2: every Score a call adds holds a range of the input that runs from an
\* opening brace to its matching closing brace, and for a well-formed body
\* each is the verbatim text of one of the elements, the first or a later one.
C2_BytesAreTheElement ==
    /\ \A s \in Added : IsElementRange(s.bytes) /\ Occurs(s.bytes, bytes)
    /\ (pc = "returned" /\ old = << >> /\ bytes \in GoodBytes) =>
           \A d \in GoodBodies :
               bytes = d.bytes =>
                   \A s \in Members(scores) :
                       \E j \in 1..Len(d.elems) :
                           s = Score(Elem(d.elems[j].kind, d.elems[j].id), d.elems[j].id)

\* The second element of a body has been added with its own bytes.
C2_Witness ==
    /\ pc = "returned"
    /\ old = << >>
    /\ bytes = Render(Doc("plain", <<E("before", 7), E("after", 12)>>, "comma_space", "close"))
    /\ Len(scores) = 2
    /\ scores[2].bytes = Elem("after", 12)

\* C3: in every state, whatever calls were made and however they ended,
\* iterating the collection yields strictly ascending ids (so no two members
\* share an id).
C3_StrictlyAscending ==
    \A j, k \in 1..Len(scores) : j < k => scores[j].id < scores[k].id

\* A failed call has added id 7 in front of the id 12 an earlier call left.
C3_Witness ==
    /\ pc = "returned"
    /\ ~result[1].ok
    /\ Len(old) = 1
    /\ old[1].id = 12
    /\ Len(scores) = 2
    /\ scores[1].id = 7

\* The loop is about to process a brace that closes an element at depth 0.
Closing ==
    /\ pc = "loop"
    /\ ~is_none(NextBrace)
    /\ depth_after(At(bytes, idx + unwrap(NextBrace)), prev_depth) = 0

\* The id the element has when that brace is processed, as capture's Result.
ClosingId == capture(bytes, idx, prev_idx, unwrap(NextBrace), id, prev_depth)

ClosesWithId == Closing /\ ClosingId.ok /\ ~is_none(ClosingId.val)

\* C4: a step that closes an element whose id is already in the collection
\* leaves the collection as it is: the stored Score keeps its bytes.
C4_DuplicateDiscarded ==
    [][(ClosesWithId /\ unwrap(ClosingId.val) \in IdsOf(scores)) => scores' = scores]_vars

\* Two elements with id 7 and different bytes were scanned: the first stays.
C4_Witness ==
    /\ pc = "returned"
    /\ old = << >>
    /\ bytes = Render(Doc("plain", <<E("plain", 7), E("before", 7)>>, "comma", "close"))
    /\ result = OkResult
    /\ scores = <<Score(Elem("plain", 7), 7)>>

\* C5: when the brace iterator is exhausted while an element is open (depth
\* at least 1), the call returns an error.
C5_EndOfInputMidElementFails ==
    [][(pc = "loop" /\ is_none(NextBrace) /\ prev_depth >= 1)
           => (result' # None /\ ~result'[1].ok)]_vars

\* The byte behind the brace the loop is about to process, if there is one.
AfterBrace == At(bytes, idx + unwrap(NextBrace) + 1)
HasAfterBrace == InBounds(bytes, idx + unwrap(NextBrace) + 1)

\* C6: a call returns success only at the array's closing bracket: at the
\* byte behind the opening bracket, or at the byte behind an element's closing
\* brace.
C6_SuccessOnlyAtClosingBracket ==
    [][(result = None /\ result' = OkResult)
           => \/ pc = "first" /\ At(bytes, idx) = RBRACKET
              \/ Closing /\ HasAfterBrace /\ AfterBrace = RBRACKET]_vars

\* C7: a body without the "scores": marker is never walked (the call never
\* reaches deserialize_scores), and the call returns the missing-marker
\* error with the collection as it was before the call.
C7_MissingMarkerFailsFirst ==
    ~Occurs(SCORES, bytes) =>
        /\ pc \in {"idle", "deserialize", "returned"}
        /\ pc = "returned" =>
               /\ result = Some(Err(<<"Missing scores">>))
               /\ scores = old

\* A body with an array under another key was refused, the collection
\* holding a Score from an earlier call.
C7_Witness ==
    /\ pc = "returned"
    /\ bytes = Render(Doc("nokey", <<E("plain", 7)>>, "comma_space", "close"))
    /\ result = Some(Err(<<"Missing scores">>))
    /\ Len(old) = 1
    /\ scores = old

\* The bodies in which some element has an id only inside a nested
\* sub-object, the array being well-formed up to that element.
MissingIdDocs ==
    {d \in Docs : /\ d.head \in {"plain", "test"}
                  /\ d.sep \in {"comma", "comma_space"}
                  /\ ~AllOwnId(d.elems)}

MissingIdBodies == Rendered(MissingIdDocs)
MissingIdBytes == BytesOf(MissingIdBodies)

\* The elements before the first one without an id of its own.
BeforeMissing(es) ==
    SubSeq(es, 1, (CHOOSE j \in 1..Len(es) :
                      ~OwnId(es[j]) /\ \A k \in 1..(j - 1) : OwnId(es[k])) - 1)

\* C8: a call on a body with an element whose only id is nested returns the
\* missing-id error; that element is not added and its nested id is not
\* taken: the ids are those of before the call and of the elements before it.
C8_MissingIdFails ==
    (pc = "returned" /\ bytes \in MissingIdBytes) =>
        \A d \in MissingIdBodies :
            bytes = d.bytes =>
                /\ result = ScoresErr(<<"Missing id within bytes">>)
                /\ IdsOf(scores) = IdsOf(old) \cup ElemIds(BeforeMissing(d.elems))
                /\ \A s \in Members(scores) : s.bytes # Elem("nested_only", 7)

\* The second element had its id only in a nested sub-object: the call
\* failed after adding the first.
C8_Witness ==
    /\ pc = "returned"
    /\ old = << >>
    /\ bytes = Render(Doc("plain", <<E("plain", 12), E("nested_only", 7)>>, "comma", "close"))
    /\ result = ScoresErr(<<"Missing id within bytes">>)
    /\ IdsOf(scores) = {12}

\* C9: when an element with an id closes and a byte follows the closing
\* brace, a comma lets the loop go on, a closing bracket ends the call with
\* success, and any other byte ends it with the comma-or-bracket error.
C9_ByteAfterClosingBrace ==
    [][(ClosesWithId /\ HasAfterBrace)
           => IF AfterBrace = COMMA THEN pc' = "loop" /\ result' = None
              ELSE IF AfterBrace = RBRACKET THEN pc' = "returned" /\ result' = OkResult
              ELSE /\ pc' = "returned"
                   /\ result' = ScoresErr(<<"Expected comma or closing bracket">>)]_vars

\* A space stood between the first element's closing brace and the comma.
C9_Witness ==
    /\ pc = "returned"
    /\ old = << >>
    /\ bytes = Render(Doc("plain", <<E("plain", 7), E("plain", 12)>>, "space_comma", "close"))
    /\ result = ScoresErr(<<"Expected comma or closing bracket">>)
    /\ IdsOf(scores) = {7}

\* C10: when the byte behind the opening bracket is the closing bracket, the
\* call returns success with the collection as it was when the call began.
C10_EmptyArray ==
    [][(pc = "first" /\ InBounds(bytes, idx) /\ At(bytes, idx) = RBRACKET)
           => (pc' = "returned" /\ result' = OkResult /\ scores' = old)]_vars

\* An empty array was scanned into an empty collection.
C10_Witness ==
    /\ pc = "returned"
    /\ bytes = Render(Doc("test", << >>, "comma_space", "cursor"))
    /\ result = OkResult
    /\ old = << >>
    /\ scores = << >>
\* The well-formed bodies with an object behind the array's closing bracket,
\* whole and (those of at most one element) cut short anywhere behind the
\* bracket, each with the offset of the bracket and its elements.
BracketAt(d) == Len(Render(d)) - Len(RenderTail(d.tail))
CutsBehindBracket(d) ==
    IF Len(d.elems) <= 1 /\ d.head = "test"
    THEN (BracketAt(d) + 1)..Len(Render(d))
    ELSE {Len(Render(d))}
BehindBracket ==
    UNION {{[bytes |-> SubSeq(Render(d), 1, l), close |-> BracketAt(d), elems |-> d.elems] :
                l \in CutsBehindBracket(d)} :
           d \in {e \in GoodDocs : e.tail = "cursor"}}
BehindBracketBytes == BytesOf(BehindBracket)

\* C11: the scan stops at the array's closing bracket.  The id of the object
\* behind the array (9) never enters a collection; on a well-formed body with
\* content behind the bracket, whole or cut short, the loop only ever stands
\* before a brace that lies before the bracket (no brace behind it is visited,
\* no range behind it searched), the call does not panic, and it returns
\* success with exactly the elements' ids added.
C11_StopsAtClosingBracket ==
    /\ 9 \notin IdsOf(scores)
    /\ bytes \in BehindBracketBytes =>
           \A r \in BehindBracket :
               bytes = r.bytes =>
                   /\ pc # "panicked"
                   /\ pc = "loop" =>
                          /\ ~is_none(NextBrace)
                          /\ idx + unwrap(NextBrace) < r.close
                   /\ pc = "returned" =>
                          /\ result = OkResult
                          /\ IdsOf(scores) = IdsOf(old) \cup ElemIds(r.elems)

\* A body whose content behind the bracket is an object cut short before its
\* closing braces has been scanned with success.
C11_Witness ==
    /\ pc = "returned"
    /\ LET whole == Render(Doc("test", <<E("plain", 7)>>, "comma_space", "cursor"))
       IN  bytes = SubSeq(whole, 1, Len(whole) - 2)
    /\ result = OkResult
    /\ old = << >>
    /\ IdsOf(scores) = {7}

\* The bodies on which a call fails at an element after the first ones closed
\* well: an element without an id of its own, or a broken separator behind
\* the first element.  Each with the elements that closed before the failure.
ClosedBeforeFailure(d) ==
    IF d.sep \in {"comma", "comma_space"} THEN BeforeMissing(d.elems) ELSE <<d.elems[1]>>
FailingDocs ==
    MissingIdDocs \cup {d \in Docs : /\ d.head = "plain"
                                     /\ d.tail = "close"
                                     /\ d.sep \in {"space_comma", "none"}
                                     /\ Len(d.elems) >= 2
                                     /\ OwnId(d.elems[1])}
FailingBodies == {[bytes |-> Render(d), closed |-> ClosedBeforeFailure(d)] : d \in FailingDocs}
FailingBytes == BytesOf(FailingBodies)

\* C12: a call only ever adds.  Whatever the call has done so far and however
\* it ends, every Score of before the call is in the collection with the
\* bytes it had; and when the call fails at an element, each element that
\* closed before the failure is in the collection by its id, with its own
\* text as bytes where the id was new and no earlier element carried it.
C12_OnlyEverAdds ==
    /\ Members(old) \subseteq Members(scores)
    /\ (pc = "returned" /\ bytes \in FailingBytes) =>
           \A d \in FailingBodies :
               bytes = d.bytes =>
                   /\ result # OkResult
                   /\ \A j \in 1..Len(d.closed) :
                          \E s \in Members(scores) :
                              /\ s.id = d.closed[j].id
                              /\ (/\ s.id \notin IdsOf(old)
                                  /\ \A k \in 1..(j - 1) : d.closed[k].id # s.id)
                                     => s.bytes = Elem(d.closed[j].kind, s.id)

\* A call on a collection that held id 12 failed at its second element: the
\* Score of before and the first element's are both in the collection.
C12_Witness ==
    /\ pc = "returned"
    /\ old = <<Score(Elem("after", 12), 12)>>
    /\ bytes = Render(Doc("plain", <<E("plain", 7), E("nested_only", 7)>>, "comma", "close"))
    /\ result = ScoresErr(<<"Missing id within bytes">>)
    /\ scores = <<Score(Elem("plain", 7), 7), Score(Elem("after", 12), 12)>>

\* BTreeSet::contains(&value): a member compares Equal to value.
contains(set, value) == \E k \in 1..Len(set) : cmp(set[k], value) = "Equal"

\* The Scores held against the members of a collection: the comparison keys
\* of the ids the bodies write anywhere (and of 0), and the Scores of the
\* elements' texts.
ProbeIds == {0, 9} \cup Ids \cup {NestedId(n) : n \in Ids}
Probes == {only_id(k) : k \in ProbeIds} \cup {Score(Elem(e.kind, e.id), e.id) : e \in Elems}

\* C13: for every Score a scan has left in the collection and every comparison
\* key or other Score, whatever the bytes of either: they are equal exactly
\* when the ids are, the one is less exactly when its id is, partial_cmp agrees
\* with cmp; and only_id(k) finds a member exactly when an id k is held.
C13_IdentityIsTheId ==
    pc = "returned" =>
        /\ \A s \in Members(scores) :
               \A t \in Probes :
                   /\ eq(s, t) <=> s.id = t.id
                   /\ eq(t, s) <=> s.id = t.id
                   /\ cmp(s, t) = "Equal" <=> s.id = t.id
                   /\ cmp(s, t) = "Less" <=> s.id < t.id
                   /\ cmp(t, s) = "Less" <=> t.id < s.id
                   /\ partial_cmp(s, t) = Some(cmp(s, t))
        /\ \A k \in ProbeIds : contains(scores, only_id(k)) <=> k \in IdsOf(scores)

\* The key only_id(12), which has no bytes, equals the Score a scan made of an
\* element with a nested sub-object, and finds it in the collection.
C13_Witness ==
    /\ pc = "returned"
    /\ scores = <<Score(Elem("plain", 7), 7), Score(Elem("before", 12), 12)>>
    /\ eq(only_id(12), scores[2])
    /\ only_id(12) # scores[2]
    /\ contains(scores, only_id(12))
    /\ ~contains(scores, only_id(NestedId(12)))

\* C15: the call ends in success or a returned error and never indexes the
\* buffer at or past its end: the byte behind the opening bracket is there
\* when it is read, the byte behind a closing brace that returns the depth
\* to 0 is there when it is read, and no call ends in a panic.
C15_ReturnsAndStaysInBounds ==
    /\ pc = "first" => InBounds(bytes, idx)
    /\ (pc = "loop" /\ ClosesWithId) => HasAfterBrace
    /\ pc # "panicked"
    /\ pc = "returned" => (result = OkResult \/ ~unwrap(result).ok)

\* The pass about to run over the next brace searches the gap before it.
Searching == pc = "loop" /\ ~is_none(NextBrace) /\ searches(id, prev_depth)

\* The range that pass searches.
Searched == search_slice(bytes, idx, prev_idx, unwrap(NextBrace))

\* The opening braces less the closing ones among the k bytes of the array
\* that stand before offset k (the array begins behind its opening bracket).
DepthBefore(k) ==
    Cardinality({j \in (idx + 1)..(idx + k) : bytes[j] = LBRACE})
        - Cardinality({j \in (idx + 1)..(idx + k) : bytes[j] = RBRACE})

\* C16: every range searched for the id marker is a depth-1 gap.  A pass
\* searches exactly when no id is held and the depth before its brace, as
\* counted from the bytes, is 1.  The range it searches starts at the
\* checkpoint, which is a brace, and ends just before the current brace; no
\* brace lies between the two, so the depth is 1 from the checkpoint on and
\* every byte of the range stands at depth 1, outside any nested sub-object;
\* and the checkpoint is not before the opening brace of the current element
\* (before which the depth is 0), so no byte is of a previous element.
C16_SearchesDepthOneGaps ==
    (pc = "loop" /\ ~is_none(NextBrace)) =>
        LET i == unwrap(NextBrace)
        IN  /\ searches(id, prev_depth) <=> (is_none(id) /\ DepthBefore(i) = 1)
            /\ searches(id, prev_depth) =>
                   /\ prev_idx < i
                   /\ search_slice(bytes, idx, prev_idx, i)
                          = SubSeq(bytes, idx + prev_idx + 1, idx + i)
                   /\ At(bytes, idx + prev_idx) \in {LBRACE, RBRACE}
                   /\ \A k \in (prev_idx + 1)..(i - 1) :
                          At(bytes, idx + k) \notin {LBRACE, RBRACE}
                   /\ init <= prev_idx
                   /\ At(bytes, idx + init) = LBRACE
                   /\ DepthBefore(init) = 0

\* The second element has its nested sub-object first: the range about to be
\* searched starts at the closing brace of that sub-object and holds the
\* element's own id marker.
C16_Witness ==
    /\ Searching
    /\ init > 0
    /\ At(bytes, idx + prev_idx) = RBRACE
    /\ ~is_none(memmem_find(Searched, ID))

\* The offsets behind the marker that hold a byte other than a space, and
\* the first of them.
NotSpaceAt == {k \in idx..(Len(bytes) - 1) : At(bytes, k) # SPACE}
FirstNotSpace == CHOOSE k \in NotSpaceAt : \A j \in NotSpaceAt : k <= j

\* C17: behind the marker only spaces are skipped.  When the first byte that
\* is not a space is the opening bracket, the scan goes on from the byte
\* behind it; when it is any other byte, the call returns the
\* unexpected-character error; when there is no such byte before the input
\* ends, the call returns the never-met error; and on both errors the
\* collection is as it was when the call began.
C17_OnlySpacesBeforeBracket ==
    [][pc = "deserialize_scores"
           => IF NotSpaceAt = {}
              THEN /\ pc' = "returned"
                   /\ result' = ScoresErr(<<"Failed to skip until opening bracket",
                                            "until condition never met">>)
                   /\ scores' = old
              ELSE IF At(bytes, FirstNotSpace) = LBRACKET
              THEN /\ pc' = "first"
                   /\ idx' = FirstNotSpace + 1
                   /\ result' = None
                   /\ scores' = scores
              ELSE /\ pc' = "returned"
                   /\ result' = ScoresErr(<<"Failed to skip until opening bracket",
                                            "Unexpected character">>)
                   /\ scores' = old]_vars

\* A line feed stood between the marker and the opening bracket: the call on
\* a collection of one Score failed and left the collection as it was.
C17_Witness ==
    /\ pc = "returned"
    /\ bytes = Render(Doc("newline", <<E("plain", 7)>>, "comma_space", "close"))
    /\ result = ScoresErr(<<"Failed to skip until opening bracket", "Unexpected character">>)
    /\ Len(old) = 1
    /\ scores = old

\* C18: the byte right behind the opening bracket must be an opening brace
\* or the closing bracket.  On an opening brace the loop is entered; on any
\* other byte but the closing bracket, a space included, the call returns the
\* brace-or-bracket error with the collection as it was when the call began.
C18_ByteBehindOpeningBracket ==
    [][(pc = "first" /\ InBounds(bytes, idx) /\ At(bytes, idx) # RBRACKET)
           => IF At(bytes, idx) = LBRACE
              THEN pc' = "loop" /\ result' = None /\ scores' = scores
              ELSE /\ pc' = "returned"
                   /\ result' = ScoresErr(<<"Expected opening brace or closing bracket">>)
                   /\ scores' = old]_vars

\* A space stood between the opening bracket and the first element: the call
\* on a collection of one Score failed and left the collection as it was.
C18_Witness ==
    /\ pc = "returned"
    /\ bytes = Render(Doc("gap", <<E("plain", 7)>>, "comma_space", "close"))
    /\ result = ScoresErr(<<"Expected opening brace or closing bracket">>)
    /\ Len(old) = 1
    /\ scores = old

\* On the bodies of SpecPeek: the bytes between the id marker and the closing
\* brace, which are what peek_u64 is given; the first of them that is not a
\* space; and the maximal run of digits that starts there.
PeekHasBrace == \E k \in 1..Len(bytes) : bytes[k] = RBRACE
PeekRest ==
    SubSeq(bytes, Len(PeekHead) + 1, (CHOOSE k \in 1..Len(bytes) : bytes[k] = RBRACE) - 1)
PeekNotSpace == {k \in 1..Len(PeekRest) : PeekRest[k] # SPACE}
PeekFirst == CHOOSE k \in PeekNotSpace : \A j \in PeekNotSpace : k <= j
PeekRunEnd ==
    CHOOSE e \in (PeekFirst - 1)..Len(PeekRest) :
        /\ \A j \in PeekFirst..e : PeekRest[j] \in is_ascii_digit
        /\ e < Len(PeekRest) => PeekRest[e + 1] \notin is_ascii_digit
PeekRun == IF PeekNotSpace = {} THEN << >> ELSE SubSeq(PeekRest, PeekFirst, PeekRunEnd)

RECURSIVE StripZeros(_)
StripZeros(run) ==
    IF Len(run) > 1 /\ Head(run) = DIGIT0 THEN StripZeros(Tail(run)) ELSE run

\* C19: on the bytes behind the id marker the leading spaces are skipped and
\* the id is the number the maximal run of digits writes in decimal (written
\* back in decimal it is the run less its leading zeros), whatever follows
\* the run.  When the first byte that is not a space is no digit, or no byte
\* but spaces is there, the call fails with the peek error and adds nothing,
\* a proper id marker later in the element notwithstanding.
C19_PeekU64 ==
    (pc = "returned" /\ bytes \in PeekInputs /\ PeekHasBrace) =>
        IF PeekRun # << >>
        THEN /\ result = OkResult
             /\ Len(scores) = 1
             /\ Dec(scores[1].id) = StripZeros(PeekRun)
        ELSE /\ result = ScoresErr(<<"Failed to peek u64", "Failed to skip until digit",
                                     IF PeekNotSpace = {} THEN "until condition never met"
                                     ELSE "Unexpected character">>)
             /\ scores = << >>

\* A space, then the digits 079, then a second id marker: the id is 79.
C19_Witness ==
    /\ pc = "returned"
    /\ bytes = PeekBody(<<SPACE, DIGIT0, DIGIT0 + 7, DIGIT9>>, "second")
    /\ result = OkResult
    /\ scores = <<Score(SubSeq(bytes, Len(SCORES) + 2, Len(bytes) - 1), 79)>>

====
